---- MODULE Spec2Model ----
(***************************************************************************)
(* Behaviour layer of the photographer portfolio page (src/main.js).       *)
(* Every initializer wires event handlers to DOM elements; a handler runs  *)
(* to completion on the single UI thread, so each handler is one action.   *)
(* Timers (setTimeout) and frame callbacks (requestAnimationFrame) are     *)
(* queues of pending callbacks that later actions run.                     *)
(***************************************************************************)
EXTENDS Integers, Sequences, FiniteSets, TLC

VARIABLES
  dom,             \* the queried elements that exist in the markup
  raised,          \* TRUE once a handler has ended in an uncaught exception
  overflow,        \* document.body.style.overflow
  hamburgerActive, \* .hamburger carries is-active
  overlayActive,   \* .nav-overlay carries is-active
  logoLight,       \* .logo carries is-light
  ariaExpanded,    \* aria-expanded of .hamburger
  ariaHidden,      \* aria-hidden of .nav-overlay
  scrollY,         \* window.scrollY
  headerScrolled,  \* .header carries is-scrolled
  ticking,         \* the pending-frame flag of initHeaderScroll
  rafQueue,        \* number of frame callbacks requested and not yet run
  images,          \* the [data-lightbox] items: index -> [lightbox, alt]
  currentIndex,    \* the lightbox cursor
  lbActive,        \* .lightbox carries is-active
  lbSrc,           \* src of .lightbox__image (0: the empty src of the markup)
  lbAlt,           \* alt of .lightbox__image
  lbOpacity,       \* style.opacity of .lightbox__image
  swapTimers,      \* pending 200 ms swap callbacks, oldest first
  focused,         \* the element the code focused last
  touchStartX,     \* screenX recorded at touchstart
  touchEndX,       \* screenX recorded at touchend
  buttons,         \* data-filter of each .gallery__filter-btn, in document order
  els,             \* the .reveal and .gallery__item elements: [reveal, item, category]
  btnActive,       \* which filter buttons carry is-active
  clicked,         \* the button whose click handler ran last (0: none yet)
  display,         \* style.display of each element
  visible,         \* which elements carry is-visible
  observing,       \* the elements revealObserver still observes
  filterTimers,    \* pending 50 ms re-reveal callbacks (their item), oldest first
  userStep,        \* how far the scripted visitor of SpecE2E has got
  sections,        \* the ids that elements of the document carry
  prevented,       \* defaultPrevented of the last anchor click, once dispatched
  scrollTarget,    \* id of the element scrollIntoView was last called on
  pushed,          \* number of history.pushState calls made
  hash,            \* location.hash
  lazy             \* the img[loading="lazy"] elements: [complete, naturalHeight,
                   \* listening, loaded, warned]

navVars    == <<hamburgerActive, overlayActive, logoLight, ariaExpanded, ariaHidden>>
headerVars == <<scrollY, headerScrolled, ticking, rafQueue>>
domVars    == <<dom, images, buttons, els>>
lbCore     == <<currentIndex, lbActive, lbSrc, lbAlt, lbOpacity, swapTimers, focused>>
touchVars  == <<touchStartX, touchEndX>>
lbVars     == <<lbCore, touchVars>>
filterVars == <<btnActive, clicked, display, visible, observing, filterTimers>>
anchorVars == <<sections, prevented, scrollTarget, pushed, hash>>
pageVars   == <<anchorVars, lazy>>
vars       == <<domVars, raised, overflow, navVars, headerVars, lbVars, filterVars, userStep,
                pageVars>>

-----------------------------------------------------------------------------
(* Bounds of the model *)

MaxScrollY == 60   \* scroll offsets explored: 0..MaxScrollY
MaxPending == 3    \* cap on the number of queued frame callbacks
MaxImages  == 3    \* gallery sizes explored: 1..MaxImages
MaxNoAlt   == 1    \* at most this many gallery items lack an alt text
MaxTimers  == 2    \* cap on the number of pending swap timers
MaxItems   == 2    \* gallery items of the filtered page: 1..MaxItems
MaxFilterTimers == 3  \* cap on the number of pending re-reveal timers
MaxPushed  == 3    \* cap on the number of history.pushState calls
MaxLazy    == 3    \* lazy images of the page: 1..MaxLazy

ScrollYs == 0..MaxScrollY

-----------------------------------------------------------------------------
(* The DOM *)

\* The single elements the initializers look up with querySelector.
Elements ==
  {"hamburger", "navOverlay", "logo", "lightbox", "lightboxImage",
   "lightboxClose", "lightboxPrev", "lightboxNext", "header"}

FullDom == Elements

\* String(b), as setAttribute stores a boolean argument
BoolAttr(b) == IF b THEN "true" ELSE "false"

\* a % b of JavaScript for b > 0: the result has the sign of a
JsRem(a, b) == IF a >= 0 THEN a % b ELSE -((-a) % b)

\* Math.abs
Abs(x) == IF x < 0 THEN -x ELSE x

\* initNavigation returns before wiring anything unless both exist
navEnabled == "hamburger" \in dom /\ "navOverlay" \in dom

\* initHeaderScroll returns before wiring anything unless the header exists
headerEnabled == "header" \in dom

\* images.length
N == Cardinality(DOMAIN images)

\* initLightbox returns before wiring anything unless items and .lightbox exist
lightboxEnabled == N > 0 /\ "lightbox" \in dom

\* Frames: what the handlers of one component leave alone
NavFrame      == UNCHANGED <<domVars, raised, headerVars, lbVars, filterVars, userStep, pageVars>>
HeaderFrame   == UNCHANGED <<domVars, raised, overflow, navVars, lbVars, filterVars, userStep,
                             pageVars>>
LightboxFrame == UNCHANGED <<domVars, navVars, headerVars, filterVars, pageVars>>
FilterFrame   == UNCHANGED <<domVars, raised, overflow, navVars, headerVars, lbVars, userStep,
                             pageVars>>
AnchorFrame   == UNCHANGED <<domVars, overflow, navVars, headerVars, lbVars, filterVars, userStep,
                             sections, lazy>>
ImageFrame    == UNCHANGED <<domVars, raised, overflow, navVars, headerVars, lbVars, filterVars,
                             userStep, anchorVars>>

-----------------------------------------------------------------------------
(* Navigation overlay *)

\* body overflow written by toggleNav, from the hamburger's class before the flip
toggleOverflow(isActive) == IF isActive THEN "" ELSE "hidden"

\* variant of toggleNav that locks the scroll on every toggle
toggleNavStuckLock ==
  /\ hamburgerActive' = ~hamburgerActive
  /\ overlayActive' = ~overlayActive
  /\ logoLight' = IF "logo" \in dom THEN ~logoLight ELSE logoLight
  /\ overflow' = "hidden"
  /\ ariaExpanded' = BoolAttr(~hamburgerActive)
  /\ ariaHidden' = BoolAttr(hamburgerActive)

\* variant of toggleNav that writes aria-hidden from the new state
toggleNavAriaSwapped ==
  /\ hamburgerActive' = ~hamburgerActive
  /\ overlayActive' = ~overlayActive
  /\ logoLight' = IF "logo" \in dom THEN ~logoLight ELSE logoLight
  /\ overflow' = toggleOverflow(hamburgerActive)
  /\ ariaExpanded' = BoolAttr(~hamburgerActive)
  /\ ariaHidden' = BoolAttr(~hamburgerActive)

toggleNav ==
  LET isActive == hamburgerActive
  IN /\ hamburgerActive' = ~hamburgerActive
     /\ overlayActive' = ~overlayActive
     /\ logoLight' = IF "logo" \in dom THEN ~logoLight ELSE logoLight
     /\ overflow' = toggleOverflow(isActive)
     /\ ariaExpanded' = BoolAttr(~isActive)
     /\ ariaHidden' = BoolAttr(isActive)

\* closeNav, the classes and attributes it writes
closeNavState ==
  /\ hamburgerActive' = FALSE
  /\ overlayActive' = FALSE
  /\ logoLight' = IF "logo" \in dom THEN FALSE ELSE logoLight
  /\ ariaExpanded' = "false"
  /\ ariaHidden' = "true"

closeNav ==
  /\ closeNavState
  /\ overflow' = ""

\* click on .hamburger
ClickHamburger ==
  /\ navEnabled
  /\ toggleNav
  /\ NavFrame

\* click on a .nav-overlay__link
ClickNavLink ==
  /\ navEnabled
  /\ closeNav
  /\ NavFrame

\* click whose target is the overlay itself
ClickNavBackground ==
  /\ navEnabled
  /\ closeNav
  /\ NavFrame

\* the test of the navigation's document keydown listener
navKeydownCloses(key) == key = "Escape" /\ overlayActive

-----------------------------------------------------------------------------
(* Lightbox gallery *)

AltTexts == <<"Portrait", "Landscape">>

\* a gallery of n items; item i links to picture i + 1, and the items of
\* noAlt have no alt text on their img
Gallery(n, noAlt) ==
  [i \in 0..(n - 1) |->
     [lightbox |-> i + 1,
      alt |-> IF i \in noAlt THEN "" ELSE AltTexts[(i % 2) + 1]]]

Galleries(n, maxMissing) ==
  {Gallery(n, noAlt) : noAlt \in {S \in SUBSET (0..(n - 1)) : Cardinality(S) <= maxMissing}}

\* images[i].querySelector('img')?.alt || 'Gallery image'
altOf(item) == IF item.alt = "" THEN "Gallery image" ELSE item.alt

NoFocus       == <<"none", 0>>
CloseFocus    == <<"close", 0>>
ItemFocus(i)  == <<"item", i>>

openLightbox(index) ==
  /\ currentIndex' = index
  /\ IF "lightboxImage" \notin dom
       THEN \* TypeError at lightboxImage.src = ...
            /\ raised' = TRUE
            /\ UNCHANGED <<lbSrc, lbAlt, lbActive, overflow, focused>>
       ELSE /\ lbSrc' = images[index].lightbox
            /\ lbAlt' = altOf(images[index])
            /\ lbActive' = TRUE
            /\ overflow' = "hidden"
            /\ IF "lightboxClose" \notin dom
                 THEN \* TypeError at lightboxClose.focus()
                      /\ raised' = TRUE
                      /\ UNCHANGED focused
                 ELSE /\ focused' = CloseFocus
                      /\ UNCHANGED raised
  /\ UNCHANGED <<lbOpacity, swapTimers>>

\* closeLightbox, but for body overflow
closeLightboxState ==
  /\ lbActive' = FALSE
  /\ focused' = ItemFocus(currentIndex)
  /\ UNCHANGED <<currentIndex, lbSrc, lbAlt, lbOpacity, swapTimers>>

\* variant of closeLightbox that keeps the lock while the overlay is open
closeLightboxKeepsLock ==
  /\ closeLightboxState
  /\ overflow' = IF overlayActive THEN "hidden" ELSE ""

closeLightbox ==
  /\ closeLightboxState
  /\ overflow' = ""

\* variant of nextIndex that skips an item
nextIndexTwice(i, n) == JsRem(i + 2, n)

nextIndex(i, n) == JsRem(i + 1, n)

\* variant of prevIndex without the + images.length
prevIndexNoWrap(i, n) == JsRem(i - 1, n)

prevIndex(i, n) == JsRem(i - 1 + n, n)

\* variant of updateLightboxImage that reads the item before the cursor moved
updateLightboxImageStale(idx) ==
  IF idx \notin DOMAIN images \/ "lightboxImage" \notin dom
    THEN /\ raised' = TRUE
         /\ UNCHANGED <<lbOpacity, swapTimers>>
    ELSE /\ lbOpacity' = "0"
         /\ swapTimers' = Append(swapTimers,
              [src |-> images[currentIndex].lightbox, alt |-> altOf(images[currentIndex])])
         /\ UNCHANGED raised

\* updateLightboxImage with the cursor already at idx
updateLightboxImage(idx) ==
  IF idx \notin DOMAIN images \/ "lightboxImage" \notin dom
    THEN \* TypeError: images[idx] is undefined, or lightboxImage is null
         /\ raised' = TRUE
         /\ UNCHANGED <<lbOpacity, swapTimers>>
    ELSE /\ lbOpacity' = "0"
         /\ swapTimers' = Append(swapTimers,
              [src |-> images[idx].lightbox, alt |-> altOf(images[idx])])
         /\ UNCHANGED raised

nextImage ==
  /\ currentIndex' = nextIndex(currentIndex, N)
  /\ updateLightboxImage(currentIndex')
  /\ UNCHANGED <<lbActive, lbSrc, lbAlt, focused>>

prevImage ==
  /\ currentIndex' = prevIndex(currentIndex, N)
  /\ updateLightboxImage(currentIndex')
  /\ UNCHANGED <<lbActive, lbSrc, lbAlt, focused>>

\* variant of SwapTimerFires that runs the timer set last first
SwapTimerFiresNewestFirst ==
  /\ swapTimers # <<>>
  /\ lbSrc' = swapTimers[Len(swapTimers)].src
  /\ lbAlt' = swapTimers[Len(swapTimers)].alt
  /\ lbOpacity' = "1"
  /\ swapTimers' = SubSeq(swapTimers, 1, Len(swapTimers) - 1)
  /\ UNCHANGED <<currentIndex, lbActive, focused, raised, overflow, touchVars>>
  /\ LightboxFrame
  /\ UNCHANGED userStep

\* the callback of the setTimeout in updateLightboxImage; timers of one
\* delay run in the order they were set
SwapTimerFires ==
  /\ swapTimers # <<>>
  /\ lbSrc' = Head(swapTimers).src
  /\ lbAlt' = Head(swapTimers).alt
  /\ lbOpacity' = "1"
  /\ swapTimers' = Tail(swapTimers)
  /\ UNCHANGED <<currentIndex, lbActive, focused, raised, overflow, touchVars>>
  /\ LightboxFrame
  /\ UNCHANGED userStep

\* the click listener of gallery item index, and its keydown listener on
\* Enter or Space
itemActivated(index) ==
  /\ lightboxEnabled
  /\ openLightbox(index)
  /\ UNCHANGED touchVars
  /\ LightboxFrame

ActivateItem(index) ==
  /\ itemActivated(index)
  /\ UNCHANGED userStep

ClickLightboxClose ==
  /\ lightboxEnabled
  /\ "lightboxClose" \in dom
  /\ closeLightbox
  /\ UNCHANGED <<raised, touchVars>>
  /\ LightboxFrame
  /\ UNCHANGED userStep

\* click whose target is the lightbox itself
ClickLightboxBackground ==
  /\ lightboxEnabled
  /\ closeLightbox
  /\ UNCHANGED <<raised, touchVars>>
  /\ LightboxFrame
  /\ UNCHANGED userStep

ClickNext ==
  /\ lightboxEnabled
  /\ "lightboxNext" \in dom
  /\ Len(swapTimers) < MaxTimers
  /\ nextImage
  /\ UNCHANGED <<overflow, touchVars>>
  /\ LightboxFrame
  /\ UNCHANGED userStep

ClickPrev ==
  /\ lightboxEnabled
  /\ "lightboxPrev" \in dom
  /\ Len(swapTimers) < MaxTimers
  /\ prevImage
  /\ UNCHANGED <<overflow, touchVars>>
  /\ LightboxFrame
  /\ UNCHANGED userStep

swipeThreshold == 50

\* screen positions whose differences fall below (49), on (50) and above (99)
\* the threshold
TouchXs == {0, 50, 99}

TouchStart(x) ==
  /\ lightboxEnabled
  /\ touchStartX' = x
  /\ UNCHANGED <<touchEndX, lbCore, raised, overflow>>
  /\ LightboxFrame
  /\ UNCHANGED userStep

\* variant of handleSwipe that ignores a drag of exactly the threshold
handleSwipeStrict(startX, endX) ==
  LET diff == startX - endX
  IN IF Abs(diff) <= swipeThreshold
       THEN UNCHANGED <<lbCore, raised>>
       ELSE IF diff > 0 THEN nextImage ELSE prevImage

\* handleSwipe with the recorded positions
handleSwipe(startX, endX) ==
  LET diff == startX - endX
  IN IF Abs(diff) < swipeThreshold
       THEN UNCHANGED <<lbCore, raised>>
       ELSE IF diff > 0 THEN nextImage ELSE prevImage

TouchEnd(x) ==
  /\ lightboxEnabled
  /\ Len(swapTimers) < MaxTimers
  /\ touchEndX' = x
  /\ handleSwipe(touchStartX, x)
  /\ UNCHANGED <<touchStartX, overflow>>
  /\ LightboxFrame
  /\ UNCHANGED userStep

-----------------------------------------------------------------------------
(* Scroll reveals and gallery filters *)

FilterValues == <<"all", "portrait", "landscape">>

Categories == {"portrait", "landscape"}

\* a page with one .reveal section that is no gallery item (element 1)
\* followed by k gallery items, which carry .reveal or not, all alike
Pages(k) ==
  {[e \in 1..(k + 1) |->
      IF e = 1
        THEN [reveal |-> TRUE, item |-> FALSE, category |-> ""]
        ELSE [reveal |-> r, item |-> TRUE, category |-> cat[e]]] :
     r \in BOOLEAN, cat \in [2..(k + 1) -> Categories]}

\* the page of the specifications that leave the filters alone
IdlePage ==
  [e \in 1..2 |->
     IF e = 1 THEN [reveal |-> TRUE, item |-> FALSE, category |-> ""]
     ELSE [reveal |-> TRUE, item |-> TRUE, category |-> "portrait"]]

revealElements == {e \in DOMAIN els : els[e].reveal}
galleryItems   == {e \in DOMAIN els : els[e].item}

\* initGalleryFilters returns before wiring anything unless both exist
filtersEnabled == Len(buttons) > 0 /\ galleryItems # {}

\* variant of observingAfterReveal without the unobserve
observingKept(obs, e) == obs

\* observer.unobserve(entry.target)
observingAfterReveal(obs, e) == obs \ {e}

\* the observer callback with one entry, for target e. Only observed targets
\* are reported, an element with display none never intersects, and an
\* entry that is not intersecting changes nothing.
RevealIntersects(e) ==
  /\ e \in observing
  /\ display[e] # "none"
  /\ visible' = [visible EXCEPT ![e] = TRUE]
  /\ observing' = observingAfterReveal(observing, e)
  /\ UNCHANGED <<btnActive, clicked, display, filterTimers>>
  /\ FilterFrame

\* variant of activeAfterClick that clears no button
activeAfterClickKeepsOthers(active, b) == [active EXCEPT ![b] = TRUE]

\* remove is-active from every button, then add it to the clicked one
activeAfterClick(active, b) == [x \in DOMAIN active |-> x = b]

\* variant of matches without the 'all' case
matchesCategoryOnly(filter, category) == category = filter

\* the test that shows an item
matches(filter, category) == filter = "all" \/ category = filter

\* the click listener of filter button b
FilterClick(b) ==
  LET filter   == buttons[b]
      shown(e) == els[e].item /\ matches(filter, els[e].category)
      timers   == SelectSeq([e \in 1..Cardinality(DOMAIN els) |-> e], shown)
  IN /\ filtersEnabled
     /\ Len(filterTimers) + Len(timers) <= MaxFilterTimers
     /\ btnActive' = activeAfterClick(btnActive, b)
     /\ clicked' = b
     /\ display' = [e \in DOMAIN els |->
                      IF ~els[e].item THEN display[e]
                      ELSE IF shown(e) THEN "" ELSE "none"]
     /\ visible' = [e \in DOMAIN els |->
                      IF els[e].item /\ ~shown(e) THEN FALSE ELSE visible[e]]
     /\ filterTimers' = filterTimers \o timers
     /\ UNCHANGED observing
     /\ FilterFrame

\* the callback of the setTimeout of a shown item; timers of one delay run
\* in the order they were set
FilterTimerFires ==
  /\ filterTimers # <<>>
  /\ visible' = [visible EXCEPT ![Head(filterTimers)] = TRUE]
  /\ filterTimers' = Tail(filterTimers)
  /\ UNCHANGED <<btnActive, clicked, display, observing>>
  /\ FilterFrame

-----------------------------------------------------------------------------
(* Keyboard: the document keydown listeners, in the order they were added *)

Keys == {"Escape", "ArrowRight", "ArrowLeft"}

\* variant of keydownListeners whose lightbox listener skips the is-active test
keydownListenersAlways(key) ==
  LET navCloses == navEnabled /\ navKeydownCloses(key)
      lbHandles == lightboxEnabled
  IN /\ (lbHandles /\ key # "Escape") => Len(swapTimers) < MaxTimers
     /\ IF navCloses THEN closeNavState ELSE UNCHANGED navVars
     /\ IF lbHandles
          THEN CASE key = "Escape"     -> closeLightboxState /\ UNCHANGED raised
                 [] key = "ArrowRight" -> nextImage
                 [] key = "ArrowLeft"  -> prevImage
          ELSE UNCHANGED <<lbCore, raised>>
     /\ overflow' = IF navCloses \/ (lbHandles /\ key = "Escape") THEN "" ELSE overflow
     /\ UNCHANGED <<domVars, headerVars, touchVars, filterVars, pageVars>>

keydownListeners(key) ==
  LET navCloses == navEnabled /\ navKeydownCloses(key)
      lbHandles == lightboxEnabled /\ lbActive
  IN /\ (lbHandles /\ key # "Escape") => Len(swapTimers) < MaxTimers
     /\ IF navCloses THEN closeNavState ELSE UNCHANGED navVars
     /\ IF lbHandles
          THEN CASE key = "Escape"     -> closeLightboxState /\ UNCHANGED raised
                 [] key = "ArrowRight" -> nextImage
                 [] key = "ArrowLeft"  -> prevImage
          ELSE UNCHANGED <<lbCore, raised>>
     /\ overflow' = IF navCloses \/ (lbHandles /\ key = "Escape") THEN "" ELSE overflow
     /\ UNCHANGED <<domVars, headerVars, touchVars, filterVars, pageVars>>

KeyDown(key) ==
  /\ keydownListeners(key)
  /\ UNCHANGED userStep

-----------------------------------------------------------------------------
(* Smooth scroll of same-page anchor links *)

SectionIds == {"about", "work", "contact"}

\* href of the a[href^="#"]:not([href="#"]) links: well-formed ones and one
\* that is no valid selector
Hrefs == {"#about", "#work", "#contact", "#2024"}

NoTarget == "none"

\* document.querySelector(targetId): the matching id, "null" when no element
\* matches, "SyntaxError" when the href is not a selector
querySelector(href) ==
  CASE href = "#about" -> IF "about" \in sections THEN "about" ELSE "null"
    [] href = "#work"  -> IF "work" \in sections THEN "work" ELSE "null"
    [] href = "#contact" -> IF "contact" \in sections THEN "contact" ELSE "null"
    [] OTHER           -> "SyntaxError"

\* variant of anchorClick that cancels the default action before the lookup
anchorClickAlwaysPrevents(href) ==
  LET targetElement == querySelector(href)
  IN /\ prevented' = TRUE
     /\ IF targetElement \in SectionIds
          THEN /\ scrollTarget' = targetElement
               /\ pushed' = pushed + 1
               /\ hash' = href
               /\ UNCHANGED raised
          ELSE /\ raised' = (raised \/ targetElement = "SyntaxError")
               /\ UNCHANGED <<scrollTarget, pushed, hash>>

\* the click listener of one anchor link, followed by the browser's default
\* action (the fragment navigation sets location.hash) unless cancelled
anchorClick(href) ==
  LET targetElement == querySelector(href)
  IN IF targetElement \in SectionIds
       THEN /\ prevented' = TRUE
            /\ scrollTarget' = targetElement
            /\ pushed' = pushed + 1
            /\ hash' = href
            /\ UNCHANGED raised
       ELSE /\ prevented' = FALSE
            /\ hash' = href
            /\ raised' = (raised \/ targetElement = "SyntaxError")
            /\ UNCHANGED <<scrollTarget, pushed>>

ClickAnchor(href) ==
  /\ pushed < MaxPushed
  /\ anchorClick(href)
  /\ AnchorFrame

-----------------------------------------------------------------------------
(* Lazy image loading *)

LoadedHeight == 600

\* what initImageLoading can find an image to be: still fetching, complete
\* with a picture, or complete and broken (its error event already over)
ImageConditions ==
  {[complete |-> FALSE, naturalHeight |-> 0],
   [complete |-> TRUE,  naturalHeight |-> LoadedHeight],
   [complete |-> TRUE,  naturalHeight |-> 0]}

\* the body of lazyImages.forEach for one image
initImage(img) ==
  IF img.complete /\ img.naturalHeight # 0
    THEN [complete |-> img.complete, naturalHeight |-> img.naturalHeight,
          listening |-> FALSE, loaded |-> TRUE, warned |-> FALSE]
    ELSE [complete |-> img.complete, naturalHeight |-> img.naturalHeight,
          listening |-> TRUE, loaded |-> FALSE, warned |-> FALSE]

\* the fetch of image i succeeds: the image becomes complete and its load
\* event is dispatched
ImageLoads(i) ==
  /\ ~lazy[i].complete
  /\ lazy' = [lazy EXCEPT ![i] =
       [complete |-> TRUE, naturalHeight |-> LoadedHeight,
        listening |-> @.listening,
        loaded |-> (@.loaded \/ @.listening),
        warned |-> @.warned]]
  /\ ImageFrame

\* the fetch of image i fails: the image becomes complete without a picture
\* and its error event is dispatched
ImageFails(i) ==
  /\ ~lazy[i].complete
  /\ lazy' = [lazy EXCEPT ![i] =
       [complete |-> TRUE, naturalHeight |-> 0,
        listening |-> @.listening,
        loaded |-> (@.loaded \/ @.listening),
        warned |-> (@.warned \/ @.listening)]]
  /\ ImageFrame

-----------------------------------------------------------------------------
(* Header scroll style *)

scrollThreshold == 50

\* variant of updateHeader with >= for >
updateHeaderInclusive(y) == y >= scrollThreshold

\* updateHeader: the is-scrolled class of the header after the call
updateHeader(y) == y > scrollThreshold

\* variant of scrollListener that never sets ticking
scrollListenerNoFlag(y) ==
  /\ scrollY' = y
  /\ IF ~ticking
       THEN /\ rafQueue' = rafQueue + 1
            /\ ticking' = FALSE
       ELSE UNCHANGED <<rafQueue, ticking>>
  /\ UNCHANGED headerScrolled

\* the window scroll listener, run with the new offset y
scrollListener(y) ==
  /\ scrollY' = y
  /\ IF ~ticking
       THEN /\ rafQueue' = rafQueue + 1
            /\ ticking' = TRUE
       ELSE UNCHANGED <<rafQueue, ticking>>
  /\ UNCHANGED headerScrolled

\* the page scrolls to offset y and the scroll event is dispatched
Scroll(y) ==
  /\ headerEnabled
  /\ rafQueue < MaxPending
  /\ scrollListener(y)
  /\ HeaderFrame

\* variant of AnimationFrame whose callback resets the flag only
AnimationFrameNoUpdate ==
  /\ rafQueue > 0
  /\ ticking' = FALSE
  /\ rafQueue' = 0
  /\ UNCHANGED <<scrollY, headerScrolled>>
  /\ HeaderFrame

\* an animation frame runs every callback requested since the last frame
AnimationFrame ==
  /\ rafQueue > 0
  /\ headerScrolled' = updateHeader(scrollY)
  /\ ticking' = FALSE
  /\ rafQueue' = 0
  /\ UNCHANGED scrollY
  /\ HeaderFrame

-----------------------------------------------------------------------------
(* Initial states: the markup as loaded, after init() has run *)

NavInit ==
  /\ overflow = ""
  /\ hamburgerActive = FALSE
  /\ overlayActive = FALSE
  /\ logoLight = FALSE
  /\ ariaExpanded = "false"
  /\ ariaHidden = "true"

\* initHeaderScroll ends with an eager updateHeader()
HeaderInit(offsets) ==
  /\ scrollY \in offsets
  /\ headerScrolled = (headerEnabled /\ updateHeader(scrollY))
  /\ ticking = FALSE
  /\ rafQueue = 0

LightboxInit(galleries) ==
  /\ images \in galleries
  /\ currentIndex = 0
  /\ lbActive = FALSE
  /\ lbSrc = 0
  /\ lbAlt = ""
  /\ lbOpacity = ""
  /\ swapTimers = <<>>
  /\ focused = NoFocus
  /\ touchStartX = 0
  /\ touchEndX = 0

\* initSmoothScroll wires the links of a page whose elements carry ids
AnchorInit(idSets) ==
  /\ sections \in idSets
  /\ prevented = FALSE
  /\ scrollTarget = NoTarget
  /\ pushed = 0
  /\ hash = ""

\* initImageLoading has looked at each lazy image of the page once
LazyInit(counts) ==
  lazy \in UNION {[1..n -> {initImage(img) : img \in ImageConditions}] : n \in counts}

\* initScrollReveals observes every .reveal element; no filter clicked yet,
\* the markup preselecting the buttons of preselected
FilterInit(pages, preselected) ==
  /\ buttons = FilterValues
  /\ els \in pages
  /\ btnActive \in {[b \in 1..Len(FilterValues) |-> b \in P] : P \in preselected}
  /\ clicked = 0
  /\ display = [e \in DOMAIN els |-> ""]
  /\ visible = [e \in DOMAIN els |-> FALSE]
  /\ observing = revealElements
  /\ filterTimers = <<>>

\* navigation and header of a page whose logo is optional, the gallery idle
InitNavHeader ==
  /\ dom \in {FullDom, FullDom \ {"logo"}}
  /\ raised = FALSE
  /\ userStep = 0
  /\ NavInit
  /\ HeaderInit(ScrollYs)
  /\ LightboxInit({Gallery(MaxImages, {})})
  /\ FilterInit({IdlePage}, {{1}})
  /\ AnchorInit({SectionIds})
  /\ LazyInit({0})

NextNavHeader ==
  \/ ClickHamburger
  \/ ClickNavLink
  \/ ClickNavBackground
  \/ \E key \in Keys : KeyDown(key)
  \/ \E y \in ScrollYs : Scroll(y)
  \/ AnimationFrame

SpecNavHeader == InitNavHeader /\ [][NextNavHeader]_vars

\* navigation and header of a page loaded at the top
InitScroll ==
  /\ dom \in {FullDom, FullDom \ {"logo"}}
  /\ raised = FALSE
  /\ userStep = 0
  /\ NavInit
  /\ HeaderInit({0})
  /\ LightboxInit({Gallery(MaxImages, {})})
  /\ FilterInit({IdlePage}, {{1}})
  /\ AnchorInit({SectionIds})
  /\ LazyInit({0})

SpecScroll == InitScroll /\ [][NextNavHeader]_vars

\* the lightbox over galleries of 1..MaxImages items, with the navigation
\* overlay that shares body overflow with it
InitLightbox ==
  /\ dom = FullDom
  /\ raised = FALSE
  /\ userStep = 0
  /\ NavInit
  /\ HeaderInit({0})
  /\ LightboxInit(UNION {Galleries(n, MaxNoAlt) : n \in 1..MaxImages})
  /\ FilterInit({IdlePage}, {{1}})
  /\ AnchorInit({SectionIds})
  /\ LazyInit({0})

NextLightbox ==
  \/ \E index \in DOMAIN images : ActivateItem(index)
  \/ ClickLightboxClose
  \/ ClickLightboxBackground
  \/ ClickNext
  \/ ClickPrev
  \/ \E x \in TouchXs : TouchStart(x)
  \/ \E x \in TouchXs : TouchEnd(x)
  \/ SwapTimerFires
  \/ \E key \in Keys : KeyDown(key)
  \/ ClickHamburger
  \/ ClickNavLink

SpecLightbox == InitLightbox /\ [][NextLightbox]_vars

\* scroll reveals and gallery filters over pages of 1..MaxItems gallery
\* items, the markup preselecting no button or the first
InitFilter ==
  /\ dom = FullDom
  /\ raised = FALSE
  /\ userStep = 0
  /\ NavInit
  /\ HeaderInit({0})
  /\ LightboxInit({Gallery(1, {})})
  /\ FilterInit(UNION {Pages(k) : k \in 1..MaxItems}, {{}, {1}})
  /\ AnchorInit({SectionIds})
  /\ LazyInit({0})

NextFilter ==
  \/ \E e \in DOMAIN els : RevealIntersects(e)
  \/ \E b \in DOMAIN buttons : FilterClick(b)
  \/ FilterTimerFires

SpecFilter == InitFilter /\ [][NextFilter]_vars

\* the visitor of the end-to-end scenario: a gallery of five items; click
\* item 2, then press ArrowRight twice, while pending swap timers fire
InitE2E ==
  /\ dom = FullDom
  /\ raised = FALSE
  /\ userStep = 0
  /\ NavInit
  /\ HeaderInit({0})
  /\ LightboxInit(Galleries(5, 5))
  /\ FilterInit({IdlePage}, {{1}})
  /\ AnchorInit({SectionIds})
  /\ LazyInit({0})

VisitorOpens ==
  /\ userStep = 0
  /\ userStep' = 1
  /\ itemActivated(2)

VisitorPressesArrowRight ==
  /\ userStep \in {1, 2}
  /\ userStep' = userStep + 1
  /\ keydownListeners("ArrowRight")

NextE2E ==
  \/ VisitorOpens
  \/ VisitorPressesArrowRight
  \/ SwapTimerFires

SpecE2E == InitE2E /\ [][NextE2E]_vars

\* A visitor who opens any item and then only steps forwards and backwards,
\* as fast as they like: userStep - 1 counts the nextImage/prevImage calls.
MaxCalls == 3

VisitorOpensAny ==
  /\ userStep = 0
  /\ userStep' = 1
  /\ \E index \in DOMAIN images : itemActivated(index)

VisitorSteps(key) ==
  /\ userStep \in 1..MaxCalls
  /\ userStep' = userStep + 1
  /\ keydownListeners(key)

NextRapid ==
  \/ VisitorOpensAny
  \/ VisitorSteps("ArrowRight")
  \/ VisitorSteps("ArrowLeft")
  \/ SwapTimerFires

SpecRapid == InitLightbox /\ [][NextRapid]_vars

\* The lightbox on pages that lack any of the elements initLightbox queries:
\* the gallery items (an empty gallery), .lightbox, .lightbox__image,
\* .lightbox__close and the prev/next controls.
LightboxElements ==
  {"lightbox", "lightboxImage", "lightboxClose", "lightboxPrev", "lightboxNext"}

InitMissing ==
  /\ dom \in {FullDom \ missing : missing \in SUBSET LightboxElements}
  /\ raised = FALSE
  /\ userStep = 0
  /\ NavInit
  /\ HeaderInit({0})
  /\ LightboxInit({Gallery(0, {}), Gallery(2, {})})
  /\ FilterInit({IdlePage}, {{1}})
  /\ AnchorInit({SectionIds})
  /\ LazyInit({0})

SpecMissing == InitMissing /\ [][NextLightbox]_vars

\* anchor links on pages where some link targets do not exist
InitAnchor ==
  /\ dom = FullDom
  /\ raised = FALSE
  /\ userStep = 0
  /\ NavInit
  /\ HeaderInit({0})
  /\ LightboxInit({Gallery(MaxImages, {})})
  /\ FilterInit({IdlePage}, {{1}})
  /\ AnchorInit(SUBSET SectionIds)
  /\ LazyInit({0})

NextAnchor == \E href \in Hrefs : ClickAnchor(href)

SpecAnchor == InitAnchor /\ [][NextAnchor]_vars

\* pages with lazy images in any condition at initialization
InitImages ==
  /\ dom = FullDom
  /\ raised = FALSE
  /\ userStep = 0
  /\ NavInit
  /\ HeaderInit({0})
  /\ LightboxInit({Gallery(MaxImages, {})})
  /\ FilterInit({IdlePage}, {{1}})
  /\ AnchorInit({SectionIds})
  /\ LazyInit(1..MaxLazy)

NextImages ==
  \/ \E i \in DOMAIN lazy : ImageLoads(i)
  \/ \E i \in DOMAIN lazy : ImageFails(i)

SpecImages == InitImages /\ [][NextImages]_vars

\* the whole page: any subset of the queried elements may be missing
Init ==
  /\ dom \in SUBSET Elements
  /\ raised = FALSE
  /\ userStep = 0
  /\ NavInit
  /\ HeaderInit(ScrollYs)
  /\ LightboxInit(UNION {Galleries(n, MaxNoAlt) : n \in 1..MaxImages})
  /\ FilterInit(UNION {Pages(k) : k \in 1..MaxItems}, {{}, {1}})
  /\ AnchorInit(SUBSET SectionIds)
  /\ LazyInit(0..MaxLazy)

Next ==
  \/ NextNavHeader
  \/ NextLightbox
  \/ NextFilter
  \/ NextAnchor
  \/ NextImages

\* The component specifications above are this one with the other
\* components left idle.
Spec == Init /\ [][Next]_vars

-----------------------------------------------------------------------------
(* Properties *)

\* C1: after any sequence of hamburger clicks and close triggers, starting
\* all inactive, the hamburger carries is-active iff the overlay carries
\* is-active iff body overflow is 'hidden'.
NavConsistent ==
  /\ hamburgerActive <=> overlayActive
  /\ overlayActive <=> (overflow = "hidden")

\* the overlay open: hamburger, overlay and scroll lock all on
NavConsistentWitness ==
  hamburgerActive /\ overlayActive /\ overflow = "hidden" /\ ariaExpanded = "true"

\* C2: for a gallery of N >= 1 images the cursor stays in [0, N), with the
\* lightbox open or closed, whatever is clicked, pressed or swiped.
CursorInRange ==
  N >= 1 => (currentIndex >= 0 /\ currentIndex < N)

\* closed again after prevImage wrapped from 0 to the last item
CursorInRangeWitness ==
  /\ N = MaxImages
  /\ ~lbActive
  /\ currentIndex = N - 1
  /\ focused = ItemFocus(N - 1)
  /\ lbSrc = 1
  /\ swapTimers # <<>>

RECURSIVE nextTimes(_, _, _)
\* k nextImage calls from cursor i in a gallery of n
nextTimes(k, i, n) == IF k = 0 THEN i ELSE nextTimes(k - 1, nextIndex(i, n), n)

RECURSIVE prevTimes(_, _, _)
\* k prevImage calls from cursor i in a gallery of n
prevTimes(k, i, n) == IF k = 0 THEN i ELSE prevTimes(k - 1, prevIndex(i, n), n)

\* the round trips of C3 from the cursor of the current state
WrapRoundTrips ==
  LET i == currentIndex
  IN /\ prevIndex(nextIndex(i, N), N) = i
     /\ nextIndex(prevIndex(i, N), N) = i
     /\ nextTimes(N, i, N) = i
     /\ prevTimes(N, i, N) = i
     /\ (i = 0 => prevIndex(i, N) = N - 1)

\* C3: nextImage moves the cursor from i to (i+1) mod N and prevImage to
\* (i-1+N) mod N; next then prev, prev then next, N times next and N times
\* prev all return to i, and prevImage from 0 yields N-1.
WrapAround ==
  /\ []WrapRoundTrips
  /\ [][/\ nextImage => currentIndex' = (currentIndex + 1) % N
        /\ prevImage => currentIndex' = (currentIndex - 1 + N) % N]_vars

\* prevImage has just wrapped from item 0, shown, to the last item, pending
WrapAroundWitness ==
  /\ N = MaxImages
  /\ lbActive
  /\ currentIndex = N - 1
  /\ lbSrc = 1
  /\ Len(swapTimers) = 1
  /\ swapTimers[1].src = N

\* C4: lightbox opened on item 2 of 5, ArrowRight pressed twice: the cursor
\* is 4, and once no swap timer is pending the image shows the source of
\* item 4 and its alt (the fallback 'Gallery image' if it has none).
E2EResult ==
  userStep = 3 =>
    /\ currentIndex = 4
    /\ swapTimers = <<>> =>
         /\ lbSrc = images[4].lightbox
         /\ lbAlt = (IF images[4].alt = "" THEN "Gallery image" ELSE images[4].alt)
         /\ lbOpacity = "1"

\* the scenario has run and both swap timers have fired
E2EResultWitness ==
  /\ userStep = 3
  /\ swapTimers = <<>>
  /\ lbActive
  /\ lbSrc = 5
  /\ lbAlt = "Portrait"

\* the observer has revealed e: only its callback ever unobserves
revealed(e) == els[e].reveal /\ e \notin observing

\* C5 as claimed: an element the observer has revealed carries is-visible
\* ever after, whatever happens later, gallery filter clicks included.
RevealNeverRemoved ==
  \A e \in DOMAIN els : revealed(e) => visible[e]

\* C5: once the observer reports a .reveal element intersecting, is-visible
\* is added and the element is unobserved for good, so a later re-entry has
\* no effect; is-visible is then removed from it only by a filter click that
\* hides it, it being a gallery item too, and never from an element that is
\* no gallery item.
RevealOneShot ==
  /\ [](\A e \in DOMAIN els : (revealed(e) /\ ~els[e].item) => visible[e])
  /\ [][\A e \in DOMAIN els :
          /\ RevealIntersects(e) => (visible'[e] /\ e \notin observing')
          /\ e \notin observing => e \notin observing'
          /\ (revealed(e) /\ visible[e] /\ ~visible'[e]) =>
               /\ els[e].item
               /\ display'[e] = "none"
               /\ \E b \in DOMAIN buttons : FilterClick(b)]_vars

\* a revealed gallery item that a filter click has hidden and stripped of
\* is-visible, next to a revealed section that keeps it
RevealOneShotWitness ==
  /\ revealed(1) /\ visible[1]
  /\ \E e \in galleryItems : revealed(e) /\ ~visible[e] /\ display[e] = "none"

\* C6: after any non-empty sequence of filter clicks exactly one filter
\* button carries is-active, the one clicked last.
FilterSingleSelect ==
  clicked # 0 =>
    /\ Cardinality({b \in DOMAIN buttons : btnActive[b]}) = 1
    /\ btnActive[clicked]

\* a button other than the preselected one is the only active one
FilterSingleSelectWitness ==
  clicked = 2 /\ btnActive[2] /\ ~btnActive[1]

\* C7: after filter clicks the last of which has filter value f, every
\* gallery item of category c has display '' if f = 'all' or c = f, and
\* display 'none' otherwise.
FilterVisibility ==
  clicked # 0 =>
    LET f == buttons[clicked]
    IN \A e \in galleryItems :
         display[e] = (IF f = "all" \/ els[e].category = f THEN "" ELSE "none")

\* a category filter shows one item and hides another
FilterVisibilityWitness ==
  /\ clicked # 0
  /\ buttons[clicked] = "portrait"
  /\ \E e \in galleryItems : display[e] = ""
  /\ \E e \in galleryItems : display[e] = "none"

\* C8: once all 50 ms timers have fired, every gallery item is in the state
\* the last click alone produces: display by the last filter, is-visible on
\* the shown items and on no hidden item.
FilterLastClickOnly ==
  (clicked # 0 /\ filterTimers = <<>>) =>
    LET f == buttons[clicked]
    IN \A e \in galleryItems :
         LET shows == f = "all" \/ els[e].category = f
         IN /\ display[e] = (IF shows THEN "" ELSE "none")
            /\ visible[e] <=> shows

\* C9: after every evaluation of updateHeader, at initialization and in each
\* frame callback, the header carries is-scrolled iff scrollY > 50: not at
\* 49, not at 50, but at 51.
HeaderThreshold ==
  /\ headerScrolled <=> (scrollY > 50)
  /\ [][AnimationFrame =>
          /\ headerScrolled' <=> (scrollY' > 50)
          /\ scrollY' \in {49, 50} => ~headerScrolled'
          /\ scrollY' = 51 => headerScrolled']_vars

\* updateHeader has run at the first offset that sets the marker
HeaderThresholdWitness ==
  scrollY = 51 /\ headerScrolled /\ ~ticking /\ rafQueue = 0

\* C10: at most one frame-scheduled header update is pending, ticking is
\* true exactly when one is pending, and a frame, which runs the pending
\* callbacks, runs updateHeader at most once.
HeaderCoalesced ==
  /\ rafQueue <= 1
  /\ ticking <=> (rafQueue = 1)

\* a scroll event arrived and its frame has not run yet
HeaderCoalescedWitness ==
  ticking /\ rafQueue = 1 /\ scrollY = 51 /\ ~headerScrolled

\* C14: after any hamburger toggle or close trigger, aria-expanded of the
\* hamburger is true exactly when it carries is-active, and aria-hidden of
\* the overlay is true exactly when the overlay does not carry is-active.
NavAriaMirrors ==
  /\ (ariaExpanded = "true") <=> hamburgerActive
  /\ (ariaExpanded = "false") <=> ~hamburgerActive
  /\ (ariaHidden = "true") <=> ~overlayActive
  /\ (ariaHidden = "false") <=> overlayActive

\* the overlay open, announced as expanded and not hidden
NavAriaMirrorsWitness ==
  hamburgerActive /\ overlayActive /\ ariaExpanded = "true" /\ ariaHidden = "false"

\* C20: every change of scrollY coming with a scroll event, whenever no
\* frame-scheduled update is pending the header carries is-scrolled iff
\* scrollY > 50: a scroll event dropped by the flag leaves nothing stale
\* once its frame has run.
HeaderConverges ==
  ~ticking => (headerScrolled <=> (scrollY > 50))

\* loaded at the top, scrolled past the threshold, and the frame has run
HeaderConvergesWitness ==
  ~ticking /\ rafQueue = 0 /\ scrollY = MaxScrollY /\ headerScrolled

\* C15: while the lightbox does not carry is-active, a keydown of
\* ArrowLeft, ArrowRight or Escape leaves the cursor, the image's source,
\* alt and opacity, the lightbox class and the focus unchanged, schedules no
\* timer, and leaves body overflow unchanged unless the navigation's own
\* listener closes the overlay.
KeyboardInertWhileClosed ==
  [][\A key \in Keys :
       (~lbActive /\ KeyDown(key)) =>
          /\ UNCHANGED <<currentIndex, lbActive, lbSrc, lbAlt, lbOpacity>>
          /\ UNCHANGED <<swapTimers, focused, raised>>
          /\ ~(key = "Escape" /\ overlayActive) => UNCHANGED overflow]_vars

\* the lightbox closed again after a visit, the overlay open over it
KeyboardInertWhileClosedWitness ==
  /\ ~lbActive
  /\ lbSrc # 0
  /\ focused = ItemFocus(currentIndex)
  /\ overlayActive
  /\ overflow = "hidden"

\* C16: with the overlay and the lightbox both active, closing the overlay
\* (link click or hamburger) sets body overflow to '' while the lightbox
\* stays active, and closing the lightbox (button or background) sets it to
\* '' while the overlay stays active: overflow is not 'hidden' whenever one
\* of them is active.
ScrollLockContention ==
  [][/\ (overlayActive /\ lbActive /\ (ClickNavLink \/ ClickHamburger)) =>
          (overflow' = "" /\ lbActive' /\ ~overlayActive')
     /\ (overlayActive /\ lbActive /\ (ClickLightboxClose \/ ClickLightboxBackground)) =>
          (overflow' = "" /\ overlayActive' /\ ~lbActive')]_vars

\* the lightbox still open and the page scrollable again
ScrollLockContentionWitness ==
  /\ lbActive
  /\ ~overlayActive
  /\ focused = CloseFocus
  /\ overflow = ""

\* a touchend at x made nextImage's step: the cursor moved on by one and one
\* swap timer was set
swipedNext ==
  /\ currentIndex' = (currentIndex + 1) % N
  /\ Len(swapTimers') = Len(swapTimers) + 1
  /\ lbOpacity' = "0"

\* a touchend at x made prevImage's step
swipedPrev ==
  /\ currentIndex' = (currentIndex - 1 + N) % N
  /\ Len(swapTimers') = Len(swapTimers) + 1
  /\ lbOpacity' = "0"

\* a touchend changed neither the cursor nor the displayed image
swipeIgnored ==
  UNCHANGED <<currentIndex, lbActive, lbSrc, lbAlt, lbOpacity, swapTimers>>

\* C18 as claimed: on touch-end with d = touchStartX - touchEndX a step is
\* made iff |d| exceeds 50, nextImage for d > 0 and prevImage for d < 0; a
\* drag with |d| not exceeding 50 changes nothing.
SwipeAboveThreshold ==
  [][\A x \in TouchXs :
       TouchEnd(x) =>
         LET d == touchStartX - x
         IN /\ (Abs(d) > 50 /\ d > 0) => swipedNext
            /\ (Abs(d) > 50 /\ d < 0) => swipedPrev
            /\ Abs(d) <= 50 => swipeIgnored]_vars

\* C18: on touch-end with d = touchStartX - touchEndX exactly one step is
\* made iff |d| is at least 50, nextImage for d > 0 and prevImage for d < 0;
\* a drag with |d| below 50 changes neither the cursor nor the image.
SwipeFromThreshold ==
  [][\A x \in TouchXs :
       TouchEnd(x) =>
         LET d == touchStartX - x
         IN /\ (Abs(d) >= 50 /\ d > 0) => swipedNext
            /\ (Abs(d) >= 50 /\ d < 0) => swipedPrev
            /\ Abs(d) < 50 => swipeIgnored]_vars

\* a drag of exactly 50 to the left has moved the open lightbox on by one
SwipeFromThresholdWitness ==
  /\ lbActive
  /\ touchStartX = 50
  /\ touchEndX = 0
  /\ lbSrc = 1
  /\ currentIndex = 1
  /\ Len(swapTimers) = 1
  /\ swapTimers[1].src = 2

\* C19: whenever the lightbox is open and no swap timer is pending, the
\* image's source and alt are those of images[currentIndex].
DisplayedTracksCursor ==
  (lbActive /\ swapTimers = <<>>) =>
     /\ lbSrc = images[currentIndex].lightbox
     /\ lbAlt = (IF images[currentIndex].alt = "" THEN "Gallery image"
                 ELSE images[currentIndex].alt)

\* what updateLightboxImage captures for the item under the cursor
capturedNow ==
  [src |-> images[currentIndex].lightbox, alt |-> altOf(images[currentIndex])]

\* C17 as claimed: no swap timer is cancelled, and a run of two or more
\* nextImage/prevImage calls ends, after all timers have fired, with the
\* image showing what an earlier call captured and not what the newest call
\* captured (the source/alt of images[currentIndex]).
StaleSwapWins ==
  (userStep >= 3 /\ swapTimers = <<>> /\ N > 1) =>
     (lbSrc # capturedNow.src \/ lbAlt # capturedNow.alt)

\* C17: no swap timer is cancelled, and the timers run in the order they
\* were set: after an open followed by nextImage/prevImage calls only, the
\* timer set last carries the source/alt of images[currentIndex], and once
\* all timers have fired the image shows the source/alt of
\* images[currentIndex], never those captured by an earlier call.
SwapEndsNewest ==
  /\ [][Len(swapTimers') >= Len(swapTimers) - 1
        /\ (Len(swapTimers') = Len(swapTimers) - 1 =>
              /\ swapTimers' = Tail(swapTimers)
              /\ lbSrc' = Head(swapTimers).src)]_vars
  /\ [](userStep >= 1 =>
          /\ swapTimers # <<>> => swapTimers[Len(swapTimers)] = capturedNow
          /\ swapTimers = <<>> => (lbSrc = capturedNow.src /\ lbAlt = capturedNow.alt))

\* two calls made from item 0 of three, both timers fired, the third item shown
SwapEndsNewestWitness ==
  /\ userStep = 3
  /\ N = 3
  /\ swapTimers = <<>>
  /\ lbOpacity = "1"
  /\ currentIndex = 2
  /\ lbSrc = images[2].lightbox
  /\ focused = CloseFocus

\* the lightbox has written nothing since the page was loaded
lightboxUntouched ==
  /\ currentIndex = 0
  /\ ~lbActive
  /\ lbSrc = 0
  /\ lbAlt = ""
  /\ lbOpacity = ""
  /\ swapTimers = <<>>
  /\ focused = NoFocus

\* C12: whichever of the elements a component queries are absent, no handler
\* ends in an exception, and the lightbox changes no state when its required
\* elements (gallery items, .lightbox) are absent.
MissingElementsSilent ==
  /\ ~raised
  /\ ~lightboxEnabled => lightboxUntouched

\* C13 as claimed: a click on a hash link cancels the default navigation
\* whether or not an element matches; when none matches nothing else
\* happens: no scroll, no history entry, and location.hash stays as it was.
AnchorAlwaysCancels ==
  [][\A href \in Hrefs :
       ClickAnchor(href) =>
         /\ prevented'
         /\ querySelector(href) = "null" => UNCHANGED <<scrollTarget, pushed, hash>>]_vars

\* C13: a click on a hash link cancels the default navigation only when an
\* element matches the hash, and then scrolls to it and pushes one history
\* entry; when none matches the handler does nothing (no preventDefault, no
\* scroll, no history entry) and the default navigation to the fragment
\* takes place.
AnchorCancelsOnMatch ==
  [][\A href \in Hrefs :
       ClickAnchor(href) =>
         /\ prevented' <=> (querySelector(href) \in SectionIds)
         /\ querySelector(href) \in SectionIds =>
              (scrollTarget' = querySelector(href) /\ pushed' = pushed + 1 /\ hash' = href)
         /\ querySelector(href) = "null" =>
              (UNCHANGED <<scrollTarget, pushed, raised>> /\ hash' = href)]_vars

\* a link to #work was clicked on a page without such an element
AnchorCancelsOnMatchWitness ==
  /\ "work" \notin sections
  /\ hash = "#work"
  /\ ~prevented
  /\ ~raised
  /\ scrollTarget = "about"
  /\ pushed = 1

\* C11 as a safety property: an image whose loading has ended (complete: no
\* load or error event is still to come for it) carries is-loaded.
LazyMarked ==
  \A i \in DOMAIN lazy : lazy[i].complete => lazy[i].loaded

====
